---- MODULE Spec2Model ----
(***************************************************************************)
(* The three git auto-sync scripts of the trading dashboard repository:    *)
(*   auto_sync.py      status pre-check, then add / commit / push, looped  *)
(*   realtime_sync.py  mtime snapshots, diff, then add / commit / push     *)
(*   sync_now.py       one-shot status pre-check, add / commit / push      *)
(* One behaviour is one run of one script (variable variant).  Every       *)
(* external git command is one step, so that the filesystem, the           *)
(* repository and the interrupt signal interleave with the script at       *)
(* every command boundary.                                                 *)
(***************************************************************************)
EXTENDS Integers, Sequences, FiniteSets, TLC

\* Modification times are 1..MaxMtime; 0 stands for "no such file".
MaxMtime == 2

(***************************************************************************)
(* Strings whose characters matter (paths, ignore patterns, the deleted    *)
(* marker) are sequences of one-character strings.                         *)
(***************************************************************************)
ignore_patterns ==
  { <<".", "g", "i", "t">>,
    <<"_", "_", "p", "y", "c", "a", "c", "h", "e", "_", "_">>,
    <<"n", "o", "d", "e", "_", "m", "o", "d", "u", "l", "e", "s">>,
    <<".", "e", "n", "v">>,
    <<"t", "r", "a", "d", "i", "n", "g", "_", "d", "a", "s", "h", "b", "o", "a", "r", "d", ".", "d", "b">>,
    <<".", "k", "i", "r", "o">>,
    <<".", "v", "s", "c", "o", "d", "e">> }

\* The files that may exist under the watched directory: a.py, b.py, c/.env
Paths ==
  { <<"a", ".", "p", "y">>, <<"b", ".", "p", "y">>,
    <<"c", "/", ".", "e", "n", "v">> }

\* The marker of f"{file_path} (deleted)".
DeletedSuffix == <<" ", "(", "d", "e", "l", "e", "t", "e", "d", ")">>

\* Python's `pattern in path_str` on strings: pattern occurs as a substring.
IsSubstring(pattern, s) ==
  \E i \in 0..(Len(s) - Len(pattern)) :
     SubSeq(s, i + 1, i + Len(pattern)) = pattern

\* A test that takes the patterns for whole paths.
should_ignore_whole_path(file_path) == file_path \in ignore_patterns

should_ignore(file_path) ==
  \E pattern \in ignore_patterns : IsSubstring(pattern, file_path)

\* The empty dict.
EmptySnapshot == [p \in {} |-> 0]

\* One pass of rglob('*') over the filesystem f: the files that exist and are
\* not ignored, each with its st_mtime.  A file that vanishes between the
\* enumeration and stat() is skipped, which is the scan of the filesystem
\* without that file.
get_file_times(f) ==
  [p \in {q \in Paths : f[q] # 0 /\ ~should_ignore(q)} |-> f[p]]

\* The order in which a dict is iterated (its insertion order, which is
\* rglob's order): unspecified, fixed here by CHOOSE.
RECURSIVE Enum(_)
Enum(S) ==
  IF S = {} THEN <<>>
  ELSE LET x == CHOOSE y \in S : TRUE IN <<x>> \o Enum(S \ {x})

\* The two loops of FileWatcher.watch that build changed_files.
DiffNoDeleted(last, cur) ==
  SelectSeq(Enum(DOMAIN cur),
            LAMBDA p : p \notin DOMAIN last \/ last[p] # cur[p])

\* The two loops in the other order: the deleted entries first.
DiffDeletedFirst(last, cur) ==
  LET changed == SelectSeq(Enum(DOMAIN cur),
                           LAMBDA p : p \notin DOMAIN last \/ last[p] # cur[p])
      gone    == SelectSeq(Enum(DOMAIN last), LAMBDA p : p \notin DOMAIN cur)
  IN  [i \in 1..Len(gone) |-> gone[i] \o DeletedSuffix] \o changed

Diff(last, cur) ==
  LET changed == SelectSeq(Enum(DOMAIN cur),
                           LAMBDA p : p \notin DOMAIN last \/ last[p] # cur[p])
      gone    == SelectSeq(Enum(DOMAIN last), LAMBDA p : p \notin DOMAIN cur)
  IN  changed \o [i \in 1..Len(gone) |-> gone[i] \o DeletedSuffix]

(***************************************************************************)
(* Command output.  The texts a command can print are a finite set; the    *)
(* two string tests of the scripts are computed on them.                   *)
(***************************************************************************)
NothingMsg == "nothing to commit, working tree clean"
PorcelainMsg == " M a.py\n"
ErrorMsg == "fatal: command failed"
ExceptionMsg == "[Errno 12] Cannot allocate memory"

\* `"nothing to commit" in error`
HasNothingToCommit(text) == text = NothingMsg

\* output.strip()
Strip(text) == IF text \in {"", "\n"} THEN "" ELSE text

(***************************************************************************)
(* The git repository, as far as the scripts' commands can tell:           *)
(*   staged  the index differs from HEAD                                   *)
(*   ahead   HEAD holds commits the remote does not                        *)
(* The work tree is not tracked: whether it differs from the index is the  *)
(* environment's choice each time a command looks at it.                   *)
(* subprocess.run of a command either raises (the shell cannot be          *)
(* started) or returns an exit code with the two captured streams; each    *)
(* operator below is the set of things that can happen, with the           *)
(* repository afterwards and the cause (for the record only).              *)
(***************************************************************************)
Raised(r) ==
  [raised |-> TRUE, rc |-> 1, out |-> "", err |-> ExceptionMsg,
   cause |-> "raise", repo |-> r]

Exited(rc, out, err, cause, r) ==
  [raised |-> FALSE, rc |-> rc, out |-> out, err |-> err,
   cause |-> cause, repo |-> r]

\* git status --porcelain
GitStatus(r) ==
  { Raised(r), Exited(128, "", ErrorMsg, "error", r),
    Exited(0, PorcelainMsg, "", "ok", r) }
  \cup (IF r.staged THEN {} ELSE { Exited(0, "", "", "ok", r) })

\* git add .
GitAdd(r) ==
  { Raised(r), Exited(128, "", ErrorMsg, "error", r) }
  \cup { Exited(0, "", "", "ok", [r EXCEPT !.staged = s]) : s \in BOOLEAN }

\* git commit -m "..."
GitCommit(r) ==
  { Raised(r), Exited(1, "", ErrorMsg, "error", r) }
  \cup (IF r.staged
        THEN { Exited(0, "1 file changed", "", "ok",
                      [r EXCEPT !.staged = FALSE, !.ahead = TRUE]) }
        ELSE { Exited(1, NothingMsg, "", "nothing", r),
               Exited(1, "", NothingMsg, "nothing", r) })

\* git push origin main
GitPush(r) ==
  { Raised(r), Exited(1, "", ErrorMsg, "error", r),
    Exited(0, "", "To github.com", "ok", [r EXCEPT !.ahead = FALSE]) }

(***************************************************************************)
(* run_command / run_git_command: (success, stdout, stderr); an Exception  *)
(* of subprocess.run is caught and becomes (False, "", str(e)).            *)
(***************************************************************************)
\* A run_command without its try / except: the exception goes on to the caller.
RunUncaught(raw) ==
  [raised |-> raw.raised, ok |-> raw.rc = 0, out |-> raw.out, err |-> raw.err]

\* auto_sync.run_command
run_command(raw) ==
  IF raw.raised
  THEN [raised |-> FALSE, ok |-> FALSE, out |-> "", err |-> raw.err]
  ELSE [raised |-> FALSE, ok |-> raw.rc = 0, out |-> raw.out, err |-> raw.err]

\* FileWatcher.run_git_command
run_git_command(raw) ==
  IF raw.raised
  THEN [raised |-> FALSE, ok |-> FALSE, out |-> "", err |-> raw.err]
  ELSE [raised |-> FALSE, ok |-> raw.rc = 0, out |-> raw.out, err |-> raw.err]

\* sync_now.run_command
run_command_now(raw) ==
  IF raw.raised
  THEN [raised |-> FALSE, ok |-> FALSE, out |-> "", err |-> raw.err]
  ELSE [raised |-> FALSE, ok |-> raw.rc = 0, out |-> raw.out, err |-> raw.err]

\* A pre-check that always sees changes.
CheckAlwaysChanges(res) == TRUE

\* auto_sync.check_git_changes, on the result of git status --porcelain
check_git_changes(res) == res.ok /\ Strip(res.out) # ""

\* sync_now.quick_sync: `not success or output.strip() == ""`
NowNoChanges(res) == ~res.ok \/ Strip(res.out) = ""

VARIABLES
  variant,        \* which script runs: "auto", "realtime", "now"
  pc,             \* the script's position
  inLoop,         \* inside the try / while True of the looping scripts
  fs,             \* the watched directory: path -> mtime, 0 = absent
  last_modified,  \* FileWatcher.last_modified
  current_times,  \* watch's local current_times
  changed_files,  \* watch's local changed_files
  repo,           \* the git repository
  cmds,           \* the commands issued by the publish attempt of the running process
  ret,            \* what the publisher returned: "none" while it runs
  round,          \* realtime: "none" before the first poll, then "first", then "later"
  fsTouched,      \* the filesystem has changed since the process started
  exitCause       \* why the process ended: "none", "interrupt", "exception", "return"

vars == <<variant, pc, inLoop, fs, last_modified, current_times,
          changed_files, repo, cmds, ret, round, fsTouched, exitCause>>

Variants == {"auto", "realtime", "now"}
Looping == {"auto", "realtime"}
Exited_pcs == {"stopped", "traceback", "done"}

Mtimes == 0..MaxMtime

\* The log entry of one issued command: what the script saw, and the cause.
Entry(name, raw, res) ==
  [cmd |-> name, ok |-> res.ok, out |-> res.out, err |-> res.err,
   cause |-> raw.cause]

Last(s) == s[Len(s)]

(***************************************************************************)
(* Init: the process has just been started (for realtime_sync, __init__    *)
(* has set last_modified = {}), on any filesystem and any repository.      *)
(***************************************************************************)
Init ==
  /\ variant \in Variants
  /\ pc = IF variant = "realtime" THEN "start" ELSE "status"
  /\ inLoop = FALSE
  /\ fs \in IF variant = "realtime" THEN [Paths -> Mtimes] ELSE {[p \in Paths |-> 0]}
  /\ last_modified = EmptySnapshot
  /\ current_times = EmptySnapshot
  /\ changed_files = <<>>
  /\ repo \in [staged : BOOLEAN, ahead : BOOLEAN]
  /\ cmds = <<>>
  /\ ret = "none"
  /\ round = "none"
  /\ fsTouched = FALSE
  /\ exitCause = "none"

(***************************************************************************)
(* Shared pieces of the steps.                                             *)
(***************************************************************************)
\* The command is issued: the repository moves, the attempt's log grows.
Issue(name, raw, res) ==
  /\ repo' = raw.repo
  /\ cmds' = Append(cmds, Entry(name, raw, res))

\* An exception that no handler on the stack catches: traceback, exit code 1.
\* (except KeyboardInterrupt does not catch an Exception.)
Uncaught ==
  /\ pc' = "traceback"
  /\ exitCause' = "exception"
  /\ UNCHANGED <<inLoop, ret>>

(***************************************************************************)
(* auto_sync.py                                                            *)
(***************************************************************************)
\* auto_commit_and_push returns v to its caller: __main__'s initial sync
\* (which then calls watch_and_sync, whose loop calls the publisher again)
\* or the loop of watch_and_sync (which then sleeps).
AutoReturn(v) ==
  /\ ret' = v
  /\ exitCause' = exitCause
  /\ IF inLoop
     THEN pc' = "sleep" /\ inLoop' = inLoop
     ELSE pc' = "status" /\ inLoop' = TRUE

AutoFrame == UNCHANGED <<variant, fs, last_modified, current_times,
                         changed_files, round, fsTouched>>

\* A publisher that returns False when the pre-check command itself failed.
AutoStatusReportsFailure ==
  /\ variant = "auto" /\ pc = "status"
  /\ \E raw \in GitStatus(repo) :
       LET res == run_command(raw) IN
         /\ repo' = raw.repo
         /\ cmds' = <<Entry("status", raw, res)>>
         /\ IF ~res.ok THEN AutoReturn("False")
            ELSE IF ~check_git_changes(res) THEN AutoReturn("True")
            ELSE pc' = "add" /\ ret' = "none" /\ UNCHANGED <<inLoop, exitCause>>
  /\ AutoFrame

\* if not check_git_changes(): return True
AutoStatus ==
  /\ variant = "auto" /\ pc = "status"
  /\ \E raw \in GitStatus(repo) :
       LET res == run_command(raw) IN
         /\ repo' = raw.repo
         /\ cmds' = <<Entry("status", raw, res)>>
         /\ IF res.raised THEN Uncaught
            ELSE IF ~check_git_changes(res) THEN AutoReturn("True")
            ELSE pc' = "add" /\ ret' = "none" /\ UNCHANGED <<inLoop, exitCause>>
  /\ AutoFrame

\* git add .
AutoAdd ==
  /\ variant = "auto" /\ pc = "add"
  /\ \E raw \in GitAdd(repo) :
       LET res == run_command(raw) IN
         /\ Issue("add", raw, res)
         /\ IF res.raised THEN Uncaught
            ELSE IF ~res.ok THEN AutoReturn("False")
            ELSE pc' = "commit" /\ UNCHANGED <<inLoop, ret, exitCause>>
  /\ AutoFrame

\* A commit step that goes on to push whatever the commit did.
AutoCommitFallThrough ==
  /\ variant = "auto" /\ pc = "commit"
  /\ \E raw \in GitCommit(repo) :
       LET res == run_command(raw) IN
         /\ Issue("commit", raw, res)
         /\ pc' = "push" /\ UNCHANGED <<inLoop, ret, exitCause>>
  /\ AutoFrame

\* git commit -m "Auto-sync: ..."
AutoCommit ==
  /\ variant = "auto" /\ pc = "commit"
  /\ \E raw \in GitCommit(repo) :
       LET res == run_command(raw) IN
         /\ Issue("commit", raw, res)
         /\ IF res.raised THEN Uncaught
            ELSE IF ~res.ok THEN AutoReturn("False")
            ELSE pc' = "push" /\ UNCHANGED <<inLoop, ret, exitCause>>
  /\ AutoFrame

\* git push origin main
AutoPush ==
  /\ variant = "auto" /\ pc = "push"
  /\ \E raw \in GitPush(repo) :
       LET res == run_command(raw) IN
         /\ Issue("push", raw, res)
         /\ IF res.raised THEN Uncaught
            ELSE IF ~res.ok THEN AutoReturn("False")
            ELSE AutoReturn("True")
  /\ AutoFrame

\* time.sleep(interval), then the next iteration of while True
AutoSleep ==
  /\ variant = "auto" /\ pc = "sleep"
  /\ pc' = "status"
  /\ cmds' = <<>> /\ ret' = "none"
  /\ UNCHANGED <<inLoop, repo, exitCause>>
  /\ AutoFrame

(***************************************************************************)
(* realtime_sync.py                                                        *)
(***************************************************************************)
RtFrame == UNCHANGED <<variant, fs, fsTouched>>

\* A watch() that starts polling from the snapshot __init__ left.
RtNoInitialScan ==
  /\ variant = "realtime" /\ pc = "start"
  /\ pc' = "poll" /\ inLoop' = TRUE
  /\ UNCHANGED <<last_modified, current_times, changed_files, repo, cmds,
                 ret, round, exitCause>>
  /\ RtFrame

\* watch(): self.last_modified = self.get_file_times(), then try: while True:
RtInitialScan ==
  /\ variant = "realtime" /\ pc = "start"
  /\ last_modified' = get_file_times(fs)
  /\ pc' = "poll" /\ inLoop' = TRUE
  /\ UNCHANGED <<current_times, changed_files, repo, cmds, ret, round,
                 exitCause>>
  /\ RtFrame

\* An iteration started by a timer, also while the previous push is running.
RtPollOnTimer ==
  /\ variant = "realtime" /\ pc \in {"poll", "push"}
  /\ current_times' = get_file_times(fs)
  /\ changed_files' = Diff(last_modified, current_times')
  /\ round' = IF round = "none" THEN "first" ELSE "later"
  /\ cmds' = <<>> /\ ret' = "none"
  /\ pc' = IF changed_files' # <<>> THEN "add" ELSE "sleep"
  /\ UNCHANGED <<inLoop, last_modified, repo, exitCause>>
  /\ RtFrame

\* An iteration that calls the publisher whatever the change list holds.
RtPollAlwaysSyncs ==
  /\ variant = "realtime" /\ pc = "poll"
  /\ current_times' = get_file_times(fs)
  /\ changed_files' = Diff(last_modified, current_times')
  /\ round' = IF round = "none" THEN "first" ELSE "later"
  /\ cmds' = <<>> /\ ret' = "none"
  /\ pc' = "add"
  /\ UNCHANGED <<inLoop, last_modified, repo, exitCause>>
  /\ RtFrame

\* The top of one iteration: scan, build changed_files, `if changed_files:`.
RtPoll ==
  /\ variant = "realtime" /\ pc = "poll"
  /\ current_times' = get_file_times(fs)
  /\ changed_files' = Diff(last_modified, current_times')
  /\ round' = IF round = "none" THEN "first" ELSE "later"
  /\ cmds' = <<>> /\ ret' = "none"
  /\ pc' = IF changed_files' # <<>> THEN "add" ELSE "sleep"
  /\ UNCHANGED <<inLoop, last_modified, repo, exitCause>>
  /\ RtFrame

\* A loop that takes a fresh scan as the baseline once the publish is over.
RtAfterSyncRescan(v) ==
  /\ ret' = v
  /\ last_modified' = get_file_times(fs)
  /\ pc' = "sleep"
  /\ UNCHANGED <<inLoop, exitCause>>

\* A loop that moves the baseline only when the publish succeeded.
RtAfterSyncOnSuccess(v) ==
  /\ ret' = v
  /\ last_modified' = IF v = "True" THEN current_times ELSE last_modified
  /\ pc' = "sleep"
  /\ UNCHANGED <<inLoop, exitCause>>

\* sync_to_github returned v (the loop drops it); then
\* self.last_modified = current_times, and on to time.sleep.
RtAfterSync(v) ==
  /\ ret' = v
  /\ last_modified' = current_times
  /\ pc' = "sleep"
  /\ UNCHANGED <<inLoop, exitCause>>

RtStepFrame == UNCHANGED <<current_times, changed_files, round>>

\* git add .
RtAdd ==
  /\ variant = "realtime" /\ pc = "add"
  /\ \E raw \in GitAdd(repo) :
       LET res == run_git_command(raw) IN
         /\ Issue("add", raw, res)
         /\ IF res.raised THEN Uncaught /\ UNCHANGED last_modified
            ELSE IF ~res.ok THEN RtAfterSync("False")
            ELSE /\ pc' = "commit"
                 /\ UNCHANGED <<inLoop, ret, exitCause, last_modified>>
  /\ RtStepFrame /\ RtFrame

\* A commit step that unstages (git reset) when the commit fails.
RtCommitRollback ==
  /\ variant = "realtime" /\ pc = "commit"
  /\ \E raw \in GitCommit(repo) :
       LET res == run_git_command(raw) IN
         IF res.ok
         THEN /\ Issue("commit", raw, res)
              /\ pc' = "push"
              /\ UNCHANGED <<inLoop, ret, exitCause, last_modified>>
         ELSE /\ repo' = [raw.repo EXCEPT !.staged = FALSE]
              /\ cmds' = Append(Append(cmds, Entry("commit", raw, res)),
                                [cmd |-> "reset", ok |-> TRUE, out |-> "",
                                 err |-> "", cause |-> "ok"])
              /\ RtAfterSync("False")
  /\ RtStepFrame /\ RtFrame

\* A commit step that looks for the phrase in the standard output.
RtCommitReadsStdout ==
  /\ variant = "realtime" /\ pc = "commit"
  /\ \E raw \in GitCommit(repo) :
       LET res == run_git_command(raw) IN
         /\ Issue("commit", raw, res)
         /\ IF ~res.ok
            THEN IF HasNothingToCommit(res.out)
                 THEN RtAfterSync("True")
                 ELSE RtAfterSync("False")
            ELSE /\ pc' = "push"
                 /\ UNCHANGED <<inLoop, ret, exitCause, last_modified>>
  /\ RtStepFrame /\ RtFrame

\* git commit -m "Real-time sync: ...", with the nothing-to-commit case
RtCommit ==
  /\ variant = "realtime" /\ pc = "commit"
  /\ \E raw \in GitCommit(repo) :
       LET res == run_git_command(raw) IN
         /\ Issue("commit", raw, res)
         /\ IF res.raised THEN Uncaught /\ UNCHANGED last_modified
            ELSE IF ~res.ok
                 THEN IF HasNothingToCommit(res.err)
                      THEN RtAfterSync("True")
                      ELSE RtAfterSync("False")
            ELSE /\ pc' = "push"
                 /\ UNCHANGED <<inLoop, ret, exitCause, last_modified>>
  /\ RtStepFrame /\ RtFrame

\* A push step that tries again when the push fails.
RtPushRetry ==
  /\ variant = "realtime" /\ pc = "push"
  /\ \E raw \in GitPush(repo) :
       LET res == run_git_command(raw) IN
         /\ Issue("push", raw, res)
         /\ IF res.ok THEN RtAfterSync("True")
            ELSE /\ pc' = "push"
                 /\ UNCHANGED <<inLoop, ret, exitCause, last_modified>>
  /\ RtStepFrame /\ RtFrame

\* git push origin main
RtPush ==
  /\ variant = "realtime" /\ pc = "push"
  /\ \E raw \in GitPush(repo) :
       LET res == run_git_command(raw) IN
         /\ Issue("push", raw, res)
         /\ IF res.raised THEN Uncaught /\ UNCHANGED last_modified
            ELSE IF ~res.ok THEN RtAfterSync("False")
            ELSE RtAfterSync("True")
  /\ RtStepFrame /\ RtFrame

\* time.sleep(check_interval), then the next iteration of while True
RtSleep ==
  /\ variant = "realtime" /\ pc = "sleep"
  /\ pc' = "poll"
  /\ cmds' = <<>> /\ ret' = "none"
  /\ UNCHANGED <<inLoop, last_modified, repo, exitCause>>
  /\ RtStepFrame /\ RtFrame

(***************************************************************************)
(* sync_now.py                                                             *)
(***************************************************************************)
\* quick_sync returns (None, whatever happened) and the script ends.
NowReturn ==
  /\ ret' = "None"
  /\ pc' = "done"
  /\ exitCause' = "return"
  /\ inLoop' = inLoop

NowFrame == UNCHANGED <<variant, fs, last_modified, current_times,
                        changed_files, round, fsTouched>>

\* git status --porcelain; `if not success or output.strip() == "": return`
NowStatus ==
  /\ variant = "now" /\ pc = "status"
  /\ \E raw \in GitStatus(repo) :
       LET res == run_command_now(raw) IN
         /\ Issue("status", raw, res)
         /\ IF res.raised THEN Uncaught
            ELSE IF NowNoChanges(res) THEN NowReturn
            ELSE pc' = "add" /\ UNCHANGED <<inLoop, ret, exitCause>>
  /\ NowFrame

\* git add .
NowAdd ==
  /\ variant = "now" /\ pc = "add"
  /\ \E raw \in GitAdd(repo) :
       LET res == run_command_now(raw) IN
         /\ Issue("add", raw, res)
         /\ IF res.raised THEN Uncaught
            ELSE IF ~res.ok THEN NowReturn
            ELSE pc' = "commit" /\ UNCHANGED <<inLoop, ret, exitCause>>
  /\ NowFrame

\* git commit -m "Quick sync: ..."
NowCommit ==
  /\ variant = "now" /\ pc = "commit"
  /\ \E raw \in GitCommit(repo) :
       LET res == run_command_now(raw) IN
         /\ Issue("commit", raw, res)
         /\ IF res.raised THEN Uncaught
            ELSE IF ~res.ok THEN NowReturn
            ELSE pc' = "push" /\ UNCHANGED <<inLoop, ret, exitCause>>
  /\ NowFrame

\* git push origin main
NowPush ==
  /\ variant = "now" /\ pc = "push"
  /\ \E raw \in GitPush(repo) :
       LET res == run_command_now(raw) IN
         /\ Issue("push", raw, res)
         /\ IF res.raised THEN Uncaught ELSE NowReturn
  /\ NowFrame

(***************************************************************************)
(* The environment.                                                        *)
(***************************************************************************)
\* A file under the watched directory is created, touched or deleted while
\* realtime_sync runs (the other scripts never read the directory).
FsChange ==
  /\ variant = "realtime" /\ pc \notin Exited_pcs
  /\ \E p \in Paths, t \in Mtimes :
       /\ fs[p] # t
       /\ fs' = [fs EXCEPT ![p] = t]
  /\ fsTouched' = TRUE
  /\ UNCHANGED <<variant, pc, inLoop, last_modified, current_times,
                 changed_files, repo, cmds, ret, round, exitCause>>

\* Ctrl+C: KeyboardInterrupt is raised wherever the script is.  It is not an
\* Exception, so run_command's handler lets it through; only the
\* try / except KeyboardInterrupt around the loops catches it.  Either way
\* the process ends, and its memory (the snapshots, the change list, the
\* attempt in progress) with it.
Interrupt ==
  /\ pc \notin Exited_pcs
  /\ pc' = IF inLoop THEN "stopped" ELSE "traceback"
  /\ exitCause' = "interrupt"
  /\ last_modified' = EmptySnapshot
  /\ current_times' = EmptySnapshot
  /\ changed_files' = <<>>
  /\ cmds' = <<>>
  /\ UNCHANGED <<variant, inLoop, fs, repo, ret, round, fsTouched>>

ProgramStep ==
  \/ AutoStatus \/ AutoAdd \/ AutoCommit \/ AutoPush \/ AutoSleep
  \/ RtInitialScan \/ RtPoll \/ RtAdd \/ RtCommit \/ RtPush \/ RtSleep
  \/ NowStatus \/ NowAdd \/ NowCommit \/ NowPush

Next == ProgramStep \/ FsChange \/ Interrupt

Spec == Init /\ [][Next]_vars

\* The scheduler runs the script, every command returns, every sleep ends.
FairSpec == Spec /\ WF_vars(ProgramStep)

(***************************************************************************)
(* Vocabulary of the properties.                                           *)
(***************************************************************************)
\* The attempt's commands after the pre-check.
PublishCmds == SelectSeq(cmds, LAMBDA e : e.cmd # "status")

Protocol == <<"add", "commit", "push">>

Publishing == pc \in {"add", "commit", "push"}

\* Two snapshots are the same mapping: same keys, same timestamp per key.
SameMapping(a, b) ==
  /\ DOMAIN a = DOMAIN b
  /\ \A p \in DOMAIN a : a[p] = b[p]

Entries(seq) == {seq[i] : i \in 1..Len(seq)}

\* The pre-check ran and reported that nothing is uncommitted.
PreCheckClean ==
  /\ Len(cmds) > 0
  /\ cmds[1].cmd = "status" /\ cmds[1].ok /\ cmds[1].out = ""

\* The current cycle itself detected a change.
DetectedChange ==
  IF variant = "realtime"
  THEN changed_files # <<>>
  ELSE /\ Len(cmds) > 0
       /\ cmds[1].cmd = "status" /\ cmds[1].ok /\ cmds[1].out = PorcelainMsg

LastFailed(name) ==
  /\ Len(cmds) > 0
  /\ Last(cmds).cmd = name /\ ~Last(cmds).ok

\* C1: in every variant's publish attempt the commands after the pre-check
\* are a prefix of add, commit, push, each issued at most once and only
\* after the previous one succeeded in the same attempt; a failed add is
\* followed by neither commit nor push.
C1_StrictOrder ==
  LET p == PublishCmds IN
    /\ Len(p) <= 3
    /\ \A i \in 1..Len(p) :
         /\ p[i].cmd = Protocol[i]
         /\ i > 1 => p[i - 1].ok
    /\ (Len(p) >= 1 /\ ~p[1].ok) => ~Publishing
    /\ pc = "commit" => (Len(p) = 1 /\ p[1].ok)
    /\ pc = "push" => (Len(p) = 2 /\ p[2].ok)

C1_Witness ==
  /\ Len(PublishCmds) = 3
  /\ PublishCmds[3].ok

\* C2: the change list of two snapshots is empty exactly when they are the
\* same mapping, and the list the loop publishes is that change list.
C2_DiffEmptyIffSame ==
  /\ Diff(last_modified, current_times) = <<>>
       <=> SameMapping(last_modified, current_times)
  /\ (variant = "realtime" /\ Publishing)
       => /\ changed_files = Diff(last_modified, current_times)
          /\ changed_files # <<>>

C2_Witness ==
  /\ variant = "realtime" /\ pc = "sleep"
  /\ changed_files = <<>>
  /\ DOMAIN current_times # {}
  /\ SameMapping(last_modified, current_times)

\* C3 (as claimed): in both looping variants a commit that fails because
\* there is nothing to commit makes the publisher return True.
C3_NothingToCommitIsSuccess ==
  (variant \in Looping /\ LastFailed("commit") /\ Last(cmds).cause = "nothing")
    => ret = "True"

\* C4: in auto_sync and sync_now, when the pre-check reports no uncommitted
\* changes the attempt issues no add, commit or push.
C4_PreCheckShortCircuit ==
  (variant \in {"auto", "now"} /\ PreCheckClean)
    => /\ Len(cmds) = 1
       /\ ~Publishing

C4_Witness ==
  /\ variant = "auto" /\ pc = "sleep"
  /\ PreCheckClean
  /\ ret = "True"

\* C5: in realtime_sync, when an iteration has ended (and when the next one
\* starts) last_modified is the snapshot that iteration took, as a mapping,
\* whatever the publish did; so with the directory as that snapshot saw it,
\* the next diff is empty.
C5_BaselineAdvances ==
  (variant = "realtime" /\ pc \in {"sleep", "poll"} /\ round # "none")
    => /\ SameMapping(last_modified, current_times)
       /\ SameMapping(get_file_times(fs), current_times)
            => Diff(last_modified, get_file_times(fs)) = <<>>

C5_Witness ==
  /\ variant = "realtime" /\ pc = "sleep"
  /\ LastFailed("push")
  /\ ret = "False"
  /\ SameMapping(last_modified, current_times)

\* C6: in the looping variants no failing command (non-zero exit or an
\* exception of the invocation) ends the process; a publish attempt in the
\* loop ends at the sleep, and from a publish attempt or the sleep the loop
\* reaches its next poll, unless the user interrupts.
C6_LoopSurvivesFailures ==
  /\ [](variant \in Looping => exitCause # "exception")
  /\ [][(variant \in Looping /\ inLoop /\ Publishing /\ ~Publishing')
          => (pc' = "sleep" \/ exitCause' = "interrupt")]_vars
  /\ (variant \in Looping /\ inLoop /\ (Publishing \/ pc = "sleep"))
       ~> (pc \in {"status", "poll"} \/ exitCause = "interrupt")

C6_Witness ==
  /\ variant \in Looping /\ pc = "sleep"
  /\ Len(cmds) > 0
  /\ Last(cmds).cause = "raise"
  /\ ret = "False"

\* C7: a push is the last command of its attempt (no retry), is issued only
\* after that attempt detected a change and its add and commit succeeded;
\* when it fails the publisher returns False and the commit stays; and
\* unpushed commits stop being unpushed only by a successful push.
C7_State ==
  \A i \in 1..Len(cmds) :
    cmds[i].cmd = "push"
      => /\ i = Len(cmds)
         /\ i >= 3
         /\ cmds[i - 1].cmd = "commit" /\ cmds[i - 1].ok
         /\ cmds[i - 2].cmd = "add" /\ cmds[i - 2].ok
         /\ DetectedChange
         /\ (~cmds[i].ok /\ variant \in Looping)
              => (ret = "False" /\ repo.ahead /\ ~Publishing)

C7_Step ==
  (repo.ahead /\ ~repo'.ahead)
    => /\ Len(cmds') = Len(cmds) + 1
       /\ Last(cmds').cmd = "push" /\ Last(cmds').ok

C7_PushFailureLeavesCommit == [][C7_State /\ C7_State' /\ C7_Step]_vars

C7_Witness ==
  /\ variant \in Looping /\ pc = "sleep"
  /\ LastFailed("push")
  /\ ret = "False"
  /\ repo.ahead

\* C8: a failed command is the last command of its attempt, the scripts
\* issue nothing but status, add, commit and push, and the step of a failed
\* command leaves the repository as it was (what add staged stays staged).
C8_State ==
  /\ \A i \in 1..Len(cmds) :
       /\ cmds[i].cmd \in {"status", "add", "commit", "push"}
       /\ ~cmds[i].ok => i = Len(cmds)
  /\ (Len(cmds) > 0 /\ ~Last(cmds).ok) => ~Publishing

C8_Step ==
  (cmds' # cmds /\ Len(cmds') > 0 /\ ~Last(cmds').ok) => repo' = repo

C8_NoRollback == [][C8_State /\ C8_State' /\ C8_Step]_vars

C8_Witness ==
  /\ LastFailed("commit")
  /\ Len(cmds) >= 2
  /\ cmds[Len(cmds) - 1].cmd = "add" /\ cmds[Len(cmds) - 1].ok
  /\ repo.staged

\* C9 (as claimed): the first polling round after a start lists every
\* existing non-ignored file and publishes.
C9_RestartTreatsAllAsNew ==
  (variant = "realtime" /\ round = "first")
    => /\ \A p \in DOMAIN current_times : p \in Entries(changed_files)
       /\ DOMAIN current_times # {} => (Publishing \/ Len(cmds) > 0)

\* C9 (amended): watch() replaces the empty snapshot by its initial scan
\* before the first round, so the first round lists only what differs from
\* the initial scan; with the directory untouched since the start the list
\* is empty and nothing is published, whatever files exist.
C9_InitialScanIsBaseline ==
  (variant = "realtime" /\ round = "first")
    => /\ ~fsTouched => (changed_files = <<>> /\ cmds = <<>> /\ ~Publishing)
       /\ Publishing => changed_files = Diff(last_modified, current_times)
       /\ \A p \in DOMAIN current_times :
            (Publishing /\ p \in DOMAIN last_modified
                        /\ last_modified[p] = current_times[p])
              => p \notin Entries(changed_files)

C9_Witness ==
  /\ variant = "realtime" /\ round = "first" /\ pc = "sleep"
  /\ ~fsTouched
  /\ Cardinality(DOMAIN current_times) = 2
  /\ changed_files = <<>>

\* C10 (as claimed): a looping variant ends only by an interrupt, and every
\* interrupt ends it cleanly (the shutdown message, no traceback).
C10_InterruptExitsCleanly ==
  (variant \in Looping /\ pc \in Exited_pcs)
    => (exitCause = "interrupt" /\ pc = "stopped")


\* The paths of cur that are new or have another timestamp than in last.
ChangedPaths(last, cur) ==
  {p \in DOMAIN cur : p \notin DOMAIN last \/ last[p] # cur[p]}

\* The paths of last that cur no longer has.
GonePaths(last, cur) == DOMAIN last \ DOMAIN cur

\* An entry of a change list that carries the deleted marker.
IsDeletedEntry(e) ==
  /\ Len(e) > Len(DeletedSuffix)
  /\ SubSeq(e, Len(e) - Len(DeletedSuffix) + 1, Len(e)) = DeletedSuffix

\* C11: the change list holds exactly the changed paths of the current
\* snapshot, then the paths the previous snapshot had and the current one
\* lacks, each with the deleted marker, every changed entry before every
\* deleted one and none twice; and a round whose list holds only deleted
\* entries goes on to the publish like any other.
C11_ListShape ==
  LET d  == Diff(last_modified, current_times)
      ch == ChangedPaths(last_modified, current_times)
      go == GonePaths(last_modified, current_times)
  IN  /\ Len(d) = Cardinality(ch) + Cardinality(go)
      /\ {d[i] : i \in 1..Cardinality(ch)} = ch
      /\ {d[i] : i \in (Cardinality(ch) + 1)..Len(d)}
           = {p \o DeletedSuffix : p \in go}
      /\ \A i \in 1..Len(d) : IsDeletedEntry(d[i]) <=> i > Cardinality(ch)

C11_Trigger ==
  (/\ variant = "realtime" /\ pc = "poll"
   /\ pc' \notin Exited_pcs \cup {"poll"}
   /\ changed_files' # <<>>
   /\ \A i \in 1..Len(changed_files') : IsDeletedEntry(changed_files'[i]))
    => (pc' = "add" /\ changed_files' = Diff(last_modified, current_times'))

\* (Both snapshots are empty in every initial state, so the shape is stated
\* of the state each step leads to.)
C11_ChangedThenDeleted == [][C11_ListShape' /\ C11_Trigger]_vars

\* A round with one changed and one deleted file is being published.
C11_Witness ==
  /\ variant = "realtime" /\ pc = "push"
  /\ Len(changed_files) = 2
  /\ ~IsDeletedEntry(changed_files[1])
  /\ IsDeletedEntry(changed_files[2])


\* C12: an iteration of the file-watch loop calls the publisher exactly when
\* its change list is not empty; with an empty list it issues no command,
\* leaves the repository and the baseline as they were and goes to sleep.
C12_State ==
  (variant = "realtime" /\ pc \notin Exited_pcs)
    => /\ (Publishing \/ Len(cmds) > 0 \/ ret # "none") => changed_files # <<>>
       /\ (pc = "sleep" /\ changed_files = <<>>) => (cmds = <<>> /\ ret = "none")

C12_Step ==
  /\ (variant = "realtime" /\ pc = "poll" /\ pc' \notin Exited_pcs \cup {"poll"})
       => /\ pc' = "add" <=> changed_files' # <<>>
          /\ changed_files' = <<>>
               => /\ pc' = "sleep"
                  /\ cmds' = <<>>
                  /\ repo' = repo
                  /\ last_modified' = last_modified
  /\ (variant = "realtime" /\ pc = "sleep" /\ changed_files = <<>> /\ pc' = "poll")
       => (cmds' = <<>> /\ repo' = repo /\ last_modified' = last_modified)

C12_PublishIffChanged == [][C12_State /\ C12_State' /\ C12_Step]_vars

\* A later round found nothing to do although files are being watched.
C12_Witness ==
  /\ variant = "realtime" /\ pc = "sleep" /\ round = "later"
  /\ changed_files = <<>>
  /\ cmds = <<>>
  /\ DOMAIN last_modified # {}


\* C13: within a run of a looping variant one publish attempt is in progress
\* at a time: an attempt in progress has not returned, its commands are
\* issued one after the other, and the log of a new attempt starts only
\* after the previous attempt returned (or issued nothing).
C13_State ==
  (variant \in Looping /\ Publishing) => (ret = "none" /\ exitCause = "none")

C13_Step ==
  (variant \in Looping /\ cmds' # cmds /\ pc' \notin Exited_pcs)
    => IF Len(cmds') <= 1
       THEN cmds = <<>> \/ ret # "none"
       ELSE /\ Len(cmds') = Len(cmds) + 1
            /\ SubSeq(cmds', 1, Len(cmds)) = cmds
            /\ Publishing /\ ret = "none"

C13_OneAttemptAtATime == [][C13_State /\ C13_State' /\ C13_Step]_vars

\* A later round's attempt has got as far as its push.
C13_Witness ==
  /\ variant = "realtime" /\ round = "later"
  /\ pc = "push"
  /\ Len(cmds) = 2


\* Some pattern of the ignore set occurs in p, character by character.
ContainsIgnorePattern(p) ==
  \E pat \in ignore_patterns :
    \E i \in 1..Len(p) :
      /\ i + Len(pat) - 1 <= Len(p)
      /\ \A k \in 1..Len(pat) : p[i + k - 1] = pat[k]

\* The possible files that contain an ignore pattern.
PathsWithIgnorePattern == {p \in Paths : ContainsIgnorePattern(p)}

\* The mtime of p in a snapshot, 0 when the snapshot has no such key.
TimeIn(snap, p) == IF p \in DOMAIN snap THEN snap[p] ELSE 0

\* C14: a path that contains an ignore pattern is a key of no snapshot,
\* whatever its mtime, and an entry of no change list; a round in which only
\* such paths differ from the baseline finds no change and publishes nothing.
C14_State ==
  \A p \in PathsWithIgnorePattern :
         /\ p \notin DOMAIN get_file_times(fs)
         /\ p \notin DOMAIN last_modified
         /\ p \notin DOMAIN current_times
         /\ \A i \in 1..Len(changed_files) :
              changed_files[i] \notin {p, p \o DeletedSuffix}

C14_Step ==
  (/\ variant = "realtime" /\ pc = "poll"
   /\ pc' \notin Exited_pcs \cup {"poll"}
   /\ \A p \in Paths \ PathsWithIgnorePattern :
        fs[p] = TimeIn(last_modified, p))
    => (pc' = "sleep" /\ changed_files' = <<>>)

C14_IgnoredNeverWatched == [][C14_State /\ C14_State' /\ C14_Step]_vars

\* An ignored file exists and was touched; a later round saw no change.
C14_Witness ==
  /\ variant = "realtime" /\ pc = "sleep" /\ round = "later"
  /\ fsTouched
  /\ changed_files = <<>>
  /\ PathsWithIgnorePattern # {}
  /\ \A p \in PathsWithIgnorePattern : fs[p] = MaxMtime


\* C15: in the file-watch variant every non-ignored file whose state at a
\* round's scan differs from the snapshot of the round before (it was
\* created, touched or deleted after that snapshot, be it during the publish
\* or the sleep) is in that round's change list, deleted files with the
\* marker.
C15_Step ==
  (/\ variant = "realtime" /\ pc = "poll" /\ round # "none"
   /\ pc' \notin Exited_pcs \cup {"poll"})
    => \A p \in Paths :
         (p \notin PathsWithIgnorePattern /\ fs[p] # TimeIn(current_times, p))
           => IF fs[p] # 0
              THEN p \in Entries(changed_files')
              ELSE (p \o DeletedSuffix) \in Entries(changed_files')

C15_NoChangeLost == [][C15_Step]_vars

\* A later round has found a change made after the previous round's scan.
C15_Witness ==
  /\ variant = "realtime" /\ round = "later"
  /\ pc = "add"
  /\ changed_files # <<>>
  /\ cmds = <<>>


\* C16: in auto_sync and sync_now a pre-check command that itself fails
\* (non-zero exit or an exception of the invocation) ends the attempt as
\* "no changes" does: no add, commit or push, and auto_commit_and_push
\* returns True.
C16_FailedPreCheckIsNoChanges ==
  (/\ variant \in {"auto", "now"}
   /\ Len(cmds) > 0
   /\ cmds[1].cmd = "status" /\ ~cmds[1].ok)
    => /\ Len(cmds) = 1
       /\ ~Publishing
       /\ variant = "auto" => ret = "True"
       /\ variant = "now" => (pc = "done" /\ ret = "None")

\* auto_sync sleeps after a pre-check whose invocation raised.
C16_Witness ==
  /\ variant = "auto" /\ pc = "sleep"
  /\ Len(cmds) = 1
  /\ cmds[1].cmd = "status" /\ cmds[1].cause = "raise"
  /\ ret = "True"


\* C17: in sync_to_github a failed commit is followed by no push, and it
\* returns True exactly when the commit's standard error carries the
\* nothing-to-commit phrase; with the phrase on standard output only, or
\* nowhere, it returns False.
C17_PhraseReadFromStderr ==
  (variant = "realtime" /\ LastFailed("commit"))
    => /\ Len(cmds) = 2
       /\ pc = "sleep"
       /\ Last(cmds).err = NothingMsg => ret = "True"
       /\ Last(cmds).err # NothingMsg => ret = "False"

\* git said "nothing to commit" on its standard output: reported as failure.
C17_Witness ==
  /\ variant = "realtime" /\ LastFailed("commit")
  /\ Last(cmds).out = NothingMsg /\ Last(cmds).err = ""
  /\ ret = "False"

====
